---- MODULE Spec2Model ----
(***************************************************************************)
(* Model of the template rendering of wasmwiz/mock_server.py:              *)
(* WasmWizHandler.serve_template and WasmWizHandler.render_template.       *)
(*                                                                         *)
(* A document is a sequence of lexemes.  Every lexeme stands for the exact *)
(* text written in its name; the text is cut so that each character the    *)
(* code's patterns treat specially (the double quote, white space, the     *)
(* backslash) is a lexeme of its own, and each literal the patterns look   *)
(* for is a fixed sequence of lexemes.                                     *)
(***************************************************************************)
EXTENDS Integers, Sequences, FiniteSets, TLC

\* ---------------------------------------------------------------- lexemes
Q    == "\""
SP   == " "
NL   == "\n"
TAB  == "\t"
BS   == "\\"
LB   == "{{"
RB   == "}}"
BC   == "{% block content %}"
BT   == "{% block title %}"
EB   == "{% endblock %}"
CLS  == "class="
IFH  == "{% if active_page =="
FIT  == "%}active{% endif %}"
ACTIVE == "active"

\* '{% extends "base.html" %}'                           (mock_server.py:111)
EXTENDS_BASE == <<"{% extends", SP, Q, "base.html", Q, SP, "%}">>

\* '{{ ' + key + ' }}'                                   (mock_server.py:142)
Placeholder(key) == <<LB, SP, key, SP, RB>>

\* '{% if active_page == "' target '" %}active{% endif %}' (mock_server.py:147)
Fragment(target) == <<IFH, SP, Q>> \o target \o <<Q, SP, FIT>>

\* ------------------------------------------------------- string primitives
OccursAt(s, p, i) ==
    /\ i >= 1
    /\ i + Len(p) - 1 <= Len(s)
    /\ SubSeq(s, i, i + Len(p) - 1) = p

\* str.find from position pos (1-based); 0 when there is no occurrence
Find(s, p, pos) ==
    LET hits == {i \in pos..(Len(s) - Len(p) + 1) : OccursAt(s, p, i)}
    IN  IF hits = {} THEN 0 ELSE CHOOSE i \in hits : \A j \in hits : i <= j

\* the `in` operator on strings
Contains(s, p) == Find(s, p, 1) # 0

RECURSIVE ReplaceFrom(_, _, _, _)
ReplaceFrom(s, p, v, pos) ==
    LET i == Find(s, p, pos)
    IN  IF i = 0 THEN SubSeq(s, pos, Len(s))
        ELSE SubSeq(s, pos, i - 1) \o v \o ReplaceFrom(s, p, v, i + Len(p))

\* a replace that takes the pattern's third lexeme (the key of a
\* placeholder) for a wildcard: every placeholder is replaced, whatever its key
RECURSIVE ReplaceAnyKeyFrom(_, _, _, _)
ReplaceAnyKeyFrom(s, p, v, pos) ==
    LET hits == {i \in pos..(Len(s) - Len(p) + 1) :
                    \A n \in 1..Len(p) : n = 3 \/ s[i + n - 1] = p[n]}
    IN  IF hits = {} THEN SubSeq(s, pos, Len(s))
        ELSE LET i == CHOOSE h \in hits : \A j \in hits : h <= j
             IN  SubSeq(s, pos, i - 1) \o v
                 \o ReplaceAnyKeyFrom(s, p, v, i + Len(p))

StrReplaceAnyKey(s, p, v) == ReplaceAnyKeyFrom(s, p, v, 1)

\* str.replace(old, new): every non-overlapping occurrence, left to right
StrReplace(s, p, v) == ReplaceFrom(s, p, v, 1)

IsSpace(a) == a \in {SP, NL, TAB}

RECURSIVE LStrip(_)
LStrip(s) == IF s # <<>> /\ IsSpace(Head(s)) THEN LStrip(Tail(s)) ELSE s

RECURSIVE RStrip(_)
RStrip(s) ==
    IF s # <<>> /\ IsSpace(s[Len(s)]) THEN RStrip(SubSeq(s, 1, Len(s) - 1)) ELSE s

\* str.strip()
Strip(s) == RStrip(LStrip(s))

\* first index >= pos holding lexeme a; 0 when there is none
IndexOf(s, a, pos) ==
    LET hits == {i \in pos..Len(s) : s[i] = a}
    IN  IF hits = {} THEN 0 ELSE CHOOSE i \in hits : \A j \in hits : i <= j

\* ----------------------------------------------------- regular expressions
NoMatch == [found |-> FALSE, start |-> 0, end |-> 0, group |-> <<>>]

\* re.search(open + r'(.*?){% endblock %}', s, re.DOTALL), looking from pos:
\* the leftmost open marker that has a close marker after it, up to the
\* nearest such close marker; group is the text strictly between them
SearchBlockFrom(open, s, pos) ==
    LET i == IndexOf(s, open, pos)
        j == IF i = 0 THEN 0 ELSE IndexOf(s, EB, i + 1)
    IN  IF j = 0 THEN NoMatch
        ELSE [found |-> TRUE, start |-> i, end |-> j,
              group |-> SubSeq(s, i + 1, j - 1)]

SearchBlock(open, s) == SearchBlockFrom(open, s, 1)

\* What the replacement-template parser of re.sub makes of a backslash
\* followed by lexeme c, decided by the first character of c:
\*   a b f n r t v   the control character, then the rest of the lexeme
\*   any other ASCII letter   error "bad escape"
\*   anything else            the backslash and the lexeme, kept as written
\* (no lexeme of the model starts with a digit or with g)
ControlEscapes ==
    [c \in {"n", "title", "active", "active_page", "base.html"} |->
        CASE c = "n"           -> <<NL>>
          [] c = "title"       -> <<TAB, "itle">>
          [] c = "active"      -> <<"<BEL>", "ctive">>
          [] c = "active_page" -> <<"<BEL>", "ctive_page">>
          [] c = "base.html"   -> <<"<BACKSPACE>", "ase.html">>]

BadEscapes == {"x", "k", "j", "z", "docs", "index", "WasmWiz", "csrf_token",
               "itle", "ctive", "ctive_page", CLS}

TemplateError == [ok |-> FALSE, text |-> <<>>]

RECURSIVE ExpandTemplate(_)
ExpandTemplate(t) ==
    IF t = <<>> THEN [ok |-> TRUE, text |-> <<>>]
    ELSE IF Head(t) # BS
    THEN LET r == ExpandTemplate(Tail(t))
         IN  IF r.ok THEN [ok |-> TRUE, text |-> <<Head(t)>> \o r.text]
             ELSE TemplateError
    ELSE IF Len(t) = 1 THEN TemplateError   \* bad escape (end of pattern)
    ELSE LET c == t[2]
             r == ExpandTemplate(SubSeq(t, 3, Len(t)))
         IN  IF c \in BadEscapes \/ ~r.ok THEN TemplateError
             ELSE IF c = BS THEN [ok |-> TRUE, text |-> <<BS>> \o r.text]
             ELSE IF c \in DOMAIN ControlEscapes
             THEN [ok |-> TRUE, text |-> ControlEscapes[c] \o r.text]
             ELSE [ok |-> TRUE, text |-> <<BS, c>> \o r.text]

RECURSIVE SubBlockFrom(_, _, _, _)
SubBlockFrom(open, s, v, pos) ==
    LET m == SearchBlockFrom(open, s, pos)
    IN  IF ~m.found THEN SubSeq(s, pos, Len(s))
        ELSE SubSeq(s, pos, m.start - 1) \o v
             \o SubBlockFrom(open, s, v, m.end + 1)

\* re.sub(open + r'.*?{% endblock %}', repl, s, flags=re.DOTALL) once the
\* template repl has been expanded to v: every match is replaced
SubBlock(open, s, v) == SubBlockFrom(open, s, v, 1)

\* the pattern without its class= anchor: any quoted value is taken for a
\* class attribute value
ClassMatchAtAnyQuote(s, i) ==
    IF ~OccursAt(s, <<Q>>, i) THEN NoMatch
    ELSE LET q1 == IndexOf(s, Q, i + 1)
             q2 == IF q1 = 0 THEN 0 ELSE IndexOf(s, Q, q1 + 1)
             q3 == IF q2 = 0 THEN 0 ELSE IndexOf(s, Q, q2 + 3)
         IN  IF /\ q1 >= i + 3
                /\ OccursAt(s, <<IFH, SP, Q>>, q1 - 2)
                /\ q2 >= q1 + 2
                /\ OccursAt(s, <<Q, SP, FIT>>, q2)
                /\ q3 # 0
             THEN [found |-> TRUE, start |-> i, end |-> q3,
                   group |-> << SubSeq(s, i + 1, q1 - 3),
                                SubSeq(s, q1 + 1, q2 - 1),
                                SubSeq(s, q2 + 3, q3 - 1) >>]
             ELSE NoMatch

\* r'class="([^"]*?){% if active_page == "([^"]+)" %}active{% endif %}([^"]*?)"'
\* tried at position i.  No group may hold a double quote, so each group ends
\* at the first double quote after its start and the match is unique.
ClassMatchAt(s, i) ==
    IF ~OccursAt(s, <<CLS, Q>>, i) THEN NoMatch
    ELSE LET q1 == IndexOf(s, Q, i + 2)
             q2 == IF q1 = 0 THEN 0 ELSE IndexOf(s, Q, q1 + 1)
             q3 == IF q2 = 0 THEN 0 ELSE IndexOf(s, Q, q2 + 3)
         IN  IF /\ q1 >= i + 4
                /\ OccursAt(s, <<IFH, SP, Q>>, q1 - 2)
                /\ q2 >= q1 + 2
                /\ OccursAt(s, <<Q, SP, FIT>>, q2)
                /\ q3 # 0
             THEN [found |-> TRUE, start |-> i, end |-> q3,
                   group |-> << SubSeq(s, i + 2, q1 - 3),
                                SubSeq(s, q1 + 1, q2 - 1),
                                SubSeq(s, q2 + 3, q3 - 1) >>]
             ELSE NoMatch

ClassSearchFrom(s, pos) ==
    LET hits == {i \in pos..Len(s) : ClassMatchAt(s, i).found}
    IN  IF hits = {} THEN NoMatch
        ELSE ClassMatchAt(s, CHOOSE i \in hits : \A j \in hits : i <= j)

\* the lambda with its test left out: the token is emitted for every target
ClassReplAlwaysActive(m, active_page) ==
    <<CLS, Q>> \o m.group[1] \o <<ACTIVE>> \o m.group[3] \o <<Q>>

\* the lambda of mock_server.py:148
ClassRepl(m, active_page) ==
    <<CLS, Q>> \o m.group[1]
    \o (IF active_page = m.group[2] THEN <<ACTIVE>> ELSE <<>>)
    \o m.group[3] \o <<Q>>

RECURSIVE SubClassFrom(_, _, _)
SubClassFrom(s, active_page, pos) ==
    LET m == ClassSearchFrom(s, pos)
    IN  IF ~m.found THEN SubSeq(s, pos, Len(s))
        ELSE SubSeq(s, pos, m.start - 1) \o ClassRepl(m, active_page)
             \o SubClassFrom(s, active_page, m.end + 1)

\* re.sub of mock_server.py:146-150
SubClass(s, active_page) == SubClassFrom(s, active_page, 1)

\* ------------------------------------------------------------ the context
\* A context is the dict passed to render_template: its items in insertion
\* order, each <<key, value>>, keys distinct.
Keys(ctx) == {ctx[i][1] : i \in 1..Len(ctx)}

HasKey(ctx, key) == key \in Keys(ctx)

\* dict.get(key, default)
Get(ctx, key, default) ==
    IF HasKey(ctx, key)
    THEN ctx[CHOOSE i \in 1..Len(ctx) : ctx[i][1] = key][2]
    ELSE default

\* 'WasmWiz', the default of context.get('title', ...)   (mock_server.py:134)
DefaultTitle == <<"WasmWiz">>

\* the keys of route_map, titles and active_pages   (mock_server.py:27-38)
Routes == {"/", "/api-keys", "/docs", "/examples", "/pricing", "/faq",
           "/support", "/security", "/terms", "/privacy"}

get_page_title(r) ==
    CASE r = "/"          -> <<"Execute WebAssembly - WasmWiz">>
      [] r = "/api-keys"  -> <<"API Key Management - WasmWiz">>
      [] r = "/docs"      -> <<"API Documentation - WasmWiz">>
      [] r = "/examples"  -> <<"WebAssembly Examples - WasmWiz">>
      [] r = "/pricing"   -> <<"Pricing Plans - WasmWiz">>
      [] r = "/faq"       -> <<"Frequently Asked Questions - WasmWiz">>
      [] r = "/support"   -> <<"Get Support - WasmWiz">>
      [] r = "/security"  -> <<"Security & Compliance - WasmWiz">>
      [] r = "/terms"     -> <<"Terms of Service - WasmWiz">>
      [] r = "/privacy"   -> <<"Privacy Policy - WasmWiz">>
      [] OTHER            -> <<"WasmWiz - WebAssembly Execution API">>

get_active_page(r) ==
    CASE r = "/"          -> <<"index">>
      [] r = "/api-keys"  -> <<"api-keys">>
      [] r = "/docs"      -> <<"docs">>
      [] r = "/examples"  -> <<"examples">>
      [] r = "/pricing"   -> <<"pricing">>
      [] r = "/faq"       -> <<"faq">>
      [] r = "/support"   -> <<"support">>
      [] r = "/security"  -> <<"security">>
      [] r = "/terms"     -> <<"terms">>
      [] r = "/privacy"   -> <<"privacy">>
      [] OTHER            -> <<>>

\* the context of serve_template                    (mock_server.py:89-93)
ServeContext(r) ==
    << <<"title", get_page_title(r)>>,
       <<"csrf_token", <<"mock-csrf-token-123">> >>,
       <<"active_page", get_active_page(r)>> >>

\* the whole loop of mock_server.py:141-142: the items in order, each
\* replaced in the result of the one before
RECURSIVE SubstituteFrom(_, _, _)
SubstituteFrom(s, ctx, i) ==
    IF i > Len(ctx) THEN s
    ELSE SubstituteFrom(StrReplace(s, Placeholder(ctx[i][1]), ctx[i][2]),
                        ctx, i + 1)

SubstituteAll(s, ctx) == SubstituteFrom(s, ctx, 1)

\* ------------------------------------------------------------- the inputs
MaxChildParts == 4
MaxBaseParts  == 4
MaxDocParts   == 3
MaxClassParts == 4

\* every concatenation of at most n of the parts
RECURSIVE Concats(_, _)
Concats(parts, n) ==
    IF n = 0 THEN {<<>>}
    ELSE LET prev == Concats(parts, n - 1)
         IN  prev \cup {d \o p : d \in prev, p \in parts}

\* all orders of all subsets of the keys, each key with any of the values
RECURSIVE Contexts(_, _)
Contexts(keys, values) ==
    {<<>>} \cup UNION {
        { <<<<k, v>>>> \o c : v \in values, c \in Contexts(keys \ {k}, values) }
        : k \in keys }

TitleT == << <<"title", <<"T">>>> >>

\* child templates: the extends directive, then block markers, text to
\* trim, text with backslashes
ChildParts == { <<BC, SP, "x", SP>>, <<BC, "z">>, <<BT, "y">>, <<EB>>,
                <<BS>>, <<"n">> }

\* base.html: title block then content block; content block then title
\* block; two content blocks; no content block
BaseDocs ==
    { <<"<t>", BT, "t", EB, "</t>">> \o Placeholder("title") \o <<BC, "D", EB, "<e>">>,
      <<BC, "D", EB, "<m>", BT, "t", EB>>,
      <<BC, "D", EB, "<m>", BC, "E", EB>>,
      <<"<t>", BT, "t", EB>> }

BaseParts == { <<BC>>, <<BT>>, <<EB>>, <<"d">> }

ChildDocs ==
    { EXTENDS_BASE,
      EXTENDS_BASE \o <<BC, SP, "x", SP, EB>>,
      EXTENDS_BASE \o <<BT, "y", EB>>,
      EXTENDS_BASE \o <<BC, "x", EB, BT, "y", EB>> }

SubstParts == { Placeholder("k"), Placeholder("j"), Placeholder("z"), <<"x">>,
                <<BC, "x", EB>> }

SubstValues == { <<"X">>, Placeholder("k"), Placeholder("j") }

ClassParts == { Fragment(<<"docs">>), Fragment(<<"index">>),
                Fragment(Placeholder("z")), <<Q>>, <<Q, SP, CLS, Q>>,
                <<"nav", SP>>, Placeholder("z") }

ClassContexts == { <<>>, << <<"active_page", <<"docs">>>> >>,
                   << <<"active_page", <<"index">>>> >> }

\* templates served through serve_template, with the navigation of base.html
NavBase ==
    <<"<title>", BT, "t", EB, "</title>", "<a", SP, CLS, Q, "nav", SP>>
    \o Fragment(<<"docs">>) \o <<SP, "link", Q, ">", "<a", SP, CLS, Q>>
    \o Fragment(<<"index">>) \o <<Q, ">">> \o Placeholder("csrf_token")
    \o <<BC, "D", EB>>

ServedTemplates ==
    { EXTENDS_BASE \o <<NL, BC, NL, "<h1>">> \o Placeholder("title")
          \o <<"</h1>", NL, EB, NL>>,
      <<"<p>">> \o Placeholder("title") \o <<"</p>">> }

\* the texts of a block: text to trim, plain text, text with an escaped
\* backslash, text with a backslash before n
BlockTexts == { <<SP, "x", SP>>, <<"z">>, <<"n", BS, BS, "n">>,
                <<"z", BS, "n">> }

\* child templates with two content blocks
TwoBlockDocs ==
    { EXTENDS_BASE \o <<BC>> \o t1 \o <<EB, BC>> \o t2 \o <<EB>> :
          t1 \in BlockTexts, t2 \in BlockTexts }

\* ------------------------------------------------------- the state machine
VARIABLES
    call,             \* "serve": serve_template; "render": render_template
    route,            \* serve_template's route
    template_exists,  \* os.path.exists(template_path)
    content,          \* the template text
    base_exists,      \* os.path.exists(base_path)
    base_content,     \* the text of base.html
    context,          \* the dict given to render_template
    rendered,         \* the local variable of render_template
    idx,              \* position of the loop over context.items()
    pc,               \* where the call stands
    spliced,          \* rendered after the content block step (line 125)
    composed,         \* rendered before the loop of line 141
    substituted,      \* rendered after the loop of line 141
    raised,           \* the exception render_template raised, or "none"
    status,           \* the HTTP status serve_template sent, 0 when none
    body              \* what render_template returned / what was written

vars == <<call, route, template_exists, content, base_exists, base_content,
          context, rendered, idx, pc, spliced, composed, substituted,
          raised, status, body>>

inputs == <<call, route, template_exists, content, base_exists, base_content>>

\* the state at the call
Start(c, r, te, doc, be, b, ctx) ==
    /\ call = c
    /\ route = r
    /\ template_exists = te
    /\ content = doc
    /\ base_exists = be
    /\ base_content = b
    /\ context = ctx
    /\ rendered = <<>>
    /\ idx = 1
    /\ pc = IF c = "serve" THEN "serve_template" ELSE "render_template"
    /\ spliced = <<>>
    /\ composed = <<>>
    /\ substituted = <<>>
    /\ raised = "none"
    /\ status = 0
    /\ body = <<>>

Init ==
    \* render_template on every child, bases of each shape or no base
    \/ \E d \in Concats(ChildParts, MaxChildParts) :
        \/ \E b \in BaseDocs :
              Start("render", "", TRUE, EXTENDS_BASE \o d, TRUE, b, TitleT)
        \/ Start("render", "", TRUE, EXTENDS_BASE \o d, FALSE, <<>>, TitleT)
    \* render_template on every child with two content blocks
    \/ \E c \in TwoBlockDocs, b \in BaseDocs, ctx \in {<<>>, TitleT} :
          Start("render", "", TRUE, c, TRUE, b, ctx)
    \* render_template on every base
    \/ \E c \in ChildDocs, b \in Concats(BaseParts, MaxBaseParts),
          ctx \in {<<>>, TitleT} :
          Start("render", "", TRUE, c, TRUE, b, ctx)
    \* standalone documents with placeholders, every context
    \/ \E d \in Concats(SubstParts, MaxDocParts),
          ctx \in Contexts({"k", "j"}, SubstValues) :
          Start("render", "", TRUE, d, TRUE, <<>>, ctx)
    \* standalone documents with class attributes
    \/ \E d \in Concats(ClassParts, MaxClassParts), ctx \in ClassContexts :
          Start("render", "", TRUE, <<CLS, Q>> \o d, TRUE, <<>>, ctx)
    \* serve_template for every route
    \/ \E r \in Routes, te \in BOOLEAN, c \in ServedTemplates, be \in BOOLEAN :
          Start("serve", r, te, c, be, NavBase, <<>>)

\* an exception leaves render_template; serve_template's except clause
\* answers 500                                     (mock_server.py:104-105)
Raise(exc) ==
    /\ raised' = exc
    /\ status' = IF call = "serve" THEN 500 ELSE 0
    /\ pc' = "done"
    /\ UNCHANGED <<rendered, idx, spliced, composed, substituted, body>>

\* serve_template up to the call of render_template  (mock_server.py:76-96)
serve_template ==
    /\ pc = "serve_template"
    /\ IF ~template_exists
       THEN /\ status' = 404
            /\ pc' = "done"
            /\ UNCHANGED context
       ELSE /\ context' = ServeContext(route)
            /\ pc' = "render_template"
            /\ UNCHANGED status
    /\ UNCHANGED <<inputs, rendered, idx, spliced, composed, substituted,
                   raised, body>>

\* the extends test and the load of base.html   (mock_server.py:111-116,
\* 135-138)
LoadBase ==
    /\ pc = "render_template"
    /\ IF Contains(content, EXTENDS_BASE) /\ base_exists
       THEN /\ pc' = "content_block"
            /\ UNCHANGED <<rendered, composed>>
       ELSE /\ rendered' = content
            /\ composed' = content
            /\ pc' = "variables"
    /\ UNCHANGED <<inputs, context, idx, spliced, substituted, raised,
                   status, body>>

\* mock_server.py:119-125
ContentBlock ==
    /\ pc = "content_block"
    /\ LET content_match == SearchBlock(BC, content)
           block_content == ExpandTemplate(Strip(content_match.group))
       IN  IF content_match.found
           THEN IF block_content.ok
                THEN /\ rendered' = SubBlock(BC, base_content, block_content.text)
                     /\ spliced' = rendered'
                     /\ pc' = "title_block"
                     /\ UNCHANGED <<idx, composed, substituted, raised, status, body>>
                ELSE Raise("re.error")
           ELSE /\ rendered' = base_content
                /\ spliced' = base_content
                /\ pc' = "title_block"
                /\ UNCHANGED <<idx, composed, substituted, raised, status, body>>
    /\ UNCHANGED <<inputs, context>>

\* mock_server.py:128-134
TitleBlock ==
    /\ pc = "title_block"
    /\ LET title_match == SearchBlock(BT, content)
           title_content ==
               ExpandTemplate(IF title_match.found
                              THEN Strip(title_match.group)
                              ELSE Get(context, "title", DefaultTitle))
       IN  IF title_content.ok
           THEN /\ rendered' = SubBlock(BT, rendered, title_content.text)
                /\ composed' = rendered'
                /\ pc' = "variables"
                /\ UNCHANGED <<idx, spliced, substituted, raised, status, body>>
           ELSE Raise("re.error")
    /\ UNCHANGED <<inputs, context>>

\* one turn of the loop over context.items()     (mock_server.py:141-142)
Substitute ==
    /\ pc = "variables"
    /\ idx <= Len(context)
    /\ rendered' = StrReplace(rendered, Placeholder(context[idx][1]),
                              context[idx][2])
    /\ idx' = idx + 1
    /\ UNCHANGED <<inputs, context, pc, spliced, composed, substituted,
                   raised, status, body>>

\* the conditional classes and the return; serve_template then writes the
\* response                           (mock_server.py:145-152, 98-102)
ActiveClass ==
    /\ pc = "variables"
    /\ idx > Len(context)
    /\ substituted' = rendered
    /\ rendered' = SubClass(rendered, Get(context, "active_page", <<>>))
    /\ body' = rendered'
    /\ status' = IF call = "serve" THEN 200 ELSE 0
    /\ pc' = "done"
    /\ UNCHANGED <<inputs, context, idx, spliced, composed, raised>>

Next ==
    \/ serve_template
    \/ LoadBase
    \/ ContentBlock
    \/ TitleBlock
    \/ Substitute
    \/ ActiveClass

Spec == Init /\ [][Next]_vars

\* ------------------------------------------------------------- the claims
Inheriting == Contains(content, EXTENDS_BASE)

\* render_template has returned a document
Returned == pc = "done" /\ raised = "none" /\ status \in {0, 200}

\* the block of a document as section 4.2 of the specification reads it:
\* the first open marker and the nearest close marker after it
HasBlock(open, d) == SearchBlock(open, d).found

BlockText(open, d) == SearchBlock(open, d).group

\* d with its first block span (markers and text) replaced by text
SpliceFirst(open, d, text) ==
    LET m == SearchBlock(open, d)
    IN  IF ~m.found THEN d
        ELSE SubSeq(d, 1, m.start - 1) \o text \o SubSeq(d, m.end + 1, Len(d))

Count(d, a) == Cardinality({i \in DOMAIN d : d[i] = a})

\* C1: when the document holds the extends directive and base.html cannot be
\* loaded, render_template fails with MissingBaseTemplate and produces no
\* output document.
C1_MissingBaseTemplate ==
    (pc = "done" /\ Inheriting /\ ~base_exists /\ status # 404)
        => (raised = "MissingBaseTemplate" /\ body = <<>>)

\* C2: when child and base both have a content block, the document after the
\* content step is the base with only its first content block span replaced
\* by the child's trimmed content text, the rest of the base unchanged.
C2_SpliceFirstContentOnly ==
    (pc = "title_block" /\ HasBlock(BC, content) /\ HasBlock(BC, base_content))
        => spliced = SpliceFirst(BC, base_content, Strip(BlockText(BC, content)))

\* C3: when the child declares no content block, the content slot of the base
\* is filled with the base's own default content text and the content block
\* markers are gone.
C3_DefaultContentUnwrapped ==
    (pc = "title_block" /\ ~HasBlock(BC, content) /\ HasBlock(BC, base_content))
        => spliced = SpliceFirst(BC, base_content, BlockText(BC, base_content))

\* the title the claim expects in the title slot
ClaimedTitle ==
    IF HasBlock(BT, content) THEN Strip(BlockText(BT, content))
    ELSE Get(context, "title", DefaultTitle)

\* open and close markers alternate: no marker is unmatched, none is nested
IsMarker(a) == a \in {BC, BT, EB}

WellFormed(d) ==
    LET ms == SelectSeq(d, IsMarker)
    IN  /\ Len(ms) % 2 = 0
        /\ \A i \in 1..Len(ms) : (ms[i] = EB) <=> (i % 2 = 0)

\* the title step has just run on a well-formed base with one title block
TitleStepDone ==
    /\ pc = "variables" /\ idx = 1 /\ Inheriting /\ base_exists
    /\ WellFormed(base_content) /\ Count(base_content, BT) = 1
    /\ HasBlock(BT, content) \/ HasKey(context, "title")

\* C4: the title block span of the base is replaced by the child's trimmed
\* title text, or by the context's title when the child has no title block,
\* and no title marker of the base is left, with or without a content block
\* in the child.
C4_TitleBlockReplaced ==
    TitleStepDone =>
        /\ composed = SpliceFirst(BT, spliced, ClaimedTitle)
        /\ Count(spliced, BT) = 1 => Count(composed, BT) = Count(ClaimedTitle, BT)

HasBackslash(d) == Count(d, BS) > 0

\* what holds of the title step when the child has no backslash
TitleBlockReplacedWithoutBackslash ==
    (TitleStepDone /\ ~HasBackslash(content)) =>
        /\ composed = SpliceFirst(BT, spliced, ClaimedTitle)
        /\ Count(spliced, BT) = 1 => Count(composed, BT) = Count(ClaimedTitle, BT)

\* the positions of p in d
Occurrences(d, p) == {i \in 1..Len(d) : OccursAt(d, p, i)}

\* C5: for every key k of the context and every placeholder of k in the
\* document, the output has C[k] at the placeholder's position and holds no
\* literal placeholder of k any more, whatever the values of the context.
C5_ValueAtPlaceholder ==
    Returned =>
        \A n \in 1..Len(context) :
            LET p == Placeholder(context[n][1])
            IN  /\ \A i \in Occurrences(composed, p) :
                      substituted =
                          SubstituteAll(SubSeq(composed, 1, i - 1), context)
                          \o context[n][2]
                          \o SubstituteAll(SubSeq(composed, i + Len(p), Len(composed)),
                                           context)
                /\ ( /\ Occurrences(composed, p) # {}
                     /\ \A m \in 1..Len(context) : ~Contains(context[m][2], p) )
                   => ~Contains(body, p)

\* one scan of d: each placeholder of a key of ctx gives the key's value,
\* and the scan goes on after the placeholder, never inside the value
RECURSIVE SinglePass(_, _)
SinglePass(d, ctx) ==
    IF d = <<>> THEN <<>>
    ELSE LET ks == {k \in Keys(ctx) : OccursAt(d, Placeholder(k), 1)}
         IN  IF ks = {} THEN <<Head(d)>> \o SinglePass(Tail(d), ctx)
             ELSE Get(ctx, CHOOSE k \in ks : TRUE, <<>>)
                  \o SinglePass(SubSeq(d, 6, Len(d)), ctx)

\* the items of ctx in every order
Orders(ctx) ==
    {c \in [1..Len(ctx) -> {ctx[i] : i \in 1..Len(ctx)}] :
        \A i, j \in 1..Len(ctx) : i # j => c[i] # c[j]}

\* C6: substitution is single-pass: an inserted value is never scanned for
\* placeholders, and the output is the same for every order of the keys.
C6_SinglePassAnyOrder ==
    Returned =>
        /\ substituted = SinglePass(composed, context)
        /\ \A c \in Orders(context) : SubstituteAll(composed, c) = substituted

NoQuote(d, from, to) == \A i \in from..to : d[i] # Q

\* some class attribute value of d holds a conditional class fragment:
\* class=" text fragment text ", the texts and the target free of quotes
HasConditionalClass(d) ==
    \E i \in 1..Len(d) :
        /\ OccursAt(d, <<CLS, Q>>, i)
        /\ \E a \in (i + 2)..Len(d) :
            /\ OccursAt(d, <<IFH, SP, Q>>, a)
            /\ NoQuote(d, i + 2, a - 1)
            /\ \E b \in (a + 4)..Len(d) :
                /\ OccursAt(d, <<Q, SP, FIT>>, b)
                /\ NoQuote(d, a + 3, b - 1)
                /\ \E e \in (b + 3)..Len(d) : d[e] = Q /\ NoQuote(d, b + 3, e - 1)

StandaloneEmptyContext == Returned /\ ~Inheriting /\ context = <<>>

\* C7 as stated: a standalone document rendered with an empty context comes
\* back unchanged, conditional class fragments included.
C7_StandaloneUnchanged == StandaloneEmptyContext => body = content

\* C7 as amended: a standalone document rendered with an empty context comes
\* back unchanged when no class attribute value of it holds a conditional
\* class fragment; placeholders and block markers stay as written.
C7_UnchangedWithoutConditionalClass ==
    (StandaloneEmptyContext /\ ~HasConditionalClass(content)) => body = content

\* a returned standalone document with a placeholder, block markers and an
\* empty context
C7_Witness ==
    /\ StandaloneEmptyContext
    /\ Contains(content, Placeholder("z"))
    /\ Contains(content, <<BC, "x", EB>>)
    /\ ~HasConditionalClass(content)
    /\ body = content

\* an open marker without a close marker after it, or a close marker without
\* an open marker before it
RECURSIVE UnmatchedFrom(_, _, _)
UnmatchedFrom(d, i, depth) ==
    IF i > Len(d) THEN depth > 0
    ELSE IF d[i] \in {BC, BT} THEN UnmatchedFrom(d, i + 1, depth + 1)
    ELSE IF d[i] = EB THEN depth = 0 \/ UnmatchedFrom(d, i + 1, depth - 1)
    ELSE UnmatchedFrom(d, i + 1, depth)

Malformed(d) == UnmatchedFrom(d, 1, 0)

\* C8: an unmatched block marker in the child or in the base makes the render
\* call fail (with MalformedBlockMarkers): no output document is returned in
\* which the marker was left in place or ignored.
C8_MalformedMarkersFail ==
    ( /\ pc = "done" /\ Inheriting /\ base_exists /\ status # 404
      /\ Malformed(content) \/ Malformed(base_content) )
        => ~Returned

\* the fragment that starts at position i of d, if one does:
\* {% if active_page == "target" %}active{% endif %} with a target that is
\* not empty and holds no quote
FragmentAt(d, i) ==
    LET q == IF OccursAt(d, <<IFH, SP, Q>>, i) THEN IndexOf(d, Q, i + 3) ELSE 0
    IN  IF q > i + 3 /\ OccursAt(d, <<Q, SP, FIT>>, q)
        THEN [found |-> TRUE, start |-> i, end |-> q + 2,
              group |-> SubSeq(d, i + 3, q - 1)]
        ELSE NoMatch

\* A reading of d from left to right, lexeme by lexeme.  Outside a class
\* attribute (in = FALSE) text is copied until class=" opens a value; inside
\* (in = TRUE) each fragment is turned into the token active or into
\* nothing, other text is copied, and a quote closes the value.
RECURSIVE Resolved(_, _, _, _)
Resolved(d, i, in, active_page) ==
    IF i > Len(d) THEN <<>>
    ELSE IF ~in
    THEN IF OccursAt(d, <<CLS, Q>>, i)
         THEN <<CLS, Q>> \o Resolved(d, i + 2, TRUE, active_page)
         ELSE <<d[i]>> \o Resolved(d, i + 1, FALSE, active_page)
    ELSE LET f == FragmentAt(d, i)
         IN  IF f.found
             THEN (IF f.group = active_page THEN <<ACTIVE>> ELSE <<>>)
                  \o Resolved(d, f.end + 1, TRUE, active_page)
             ELSE <<d[i]>> \o Resolved(d, i + 1, d[i] # Q, active_page)

\* the same reading, counting: the largest number of fragments in one class
\* attribute value (n counts those of the value being read), and whether a
\* value is still open at the end
RECURSIVE MostFragments(_, _, _, _)
MostFragments(d, i, in, n) ==
    IF i > Len(d) THEN n
    ELSE IF ~in
    THEN IF OccursAt(d, <<CLS, Q>>, i)
         THEN MostFragments(d, i + 2, TRUE, 0)
         ELSE MostFragments(d, i + 1, FALSE, 0)
    ELSE LET f == FragmentAt(d, i)
             rest == IF f.found THEN MostFragments(d, f.end + 1, TRUE, n + 1)
                     ELSE MostFragments(d, i + 1, d[i] # Q, n)
             here == IF f.found THEN n + 1 ELSE n
         IN  IF rest > here THEN rest ELSE here

RECURSIVE ValueOpenAtEnd(_, _, _)
ValueOpenAtEnd(d, i, in) ==
    IF i > Len(d) THEN in
    ELSE IF ~in
    THEN IF OccursAt(d, <<CLS, Q>>, i) THEN ValueOpenAtEnd(d, i + 2, TRUE)
         ELSE ValueOpenAtEnd(d, i + 1, FALSE)
    ELSE LET f == FragmentAt(d, i)
         IN  IF f.found THEN ValueOpenAtEnd(d, f.end + 1, TRUE)
             ELSE ValueOpenAtEnd(d, i + 1, d[i] # Q)

ActivePage == Get(context, "active_page", <<>>)

\* C9 as stated: every fragment inside a class attribute value is rewritten,
\* to active when its target equals active_page and to nothing otherwise,
\* the class text around it kept, in documents with several class attributes.
C9_EveryFragmentResolved ==
    (Returned /\ ~ValueOpenAtEnd(substituted, 1, FALSE))
        => body = Resolved(substituted, 1, FALSE, ActivePage)

\* C9 as amended: the same, for documents whose class attribute values hold
\* at most one fragment each.
C9_OneFragmentPerValueResolved ==
    ( /\ Returned
      /\ ~ValueOpenAtEnd(substituted, 1, FALSE)
      /\ MostFragments(substituted, 1, FALSE, 0) <= 1 )
        => body = Resolved(substituted, 1, FALSE, ActivePage)

\* base.html served for /docs: two class attributes, one fragment each, one
\* target equal to active_page and one not, class text on both sides
C9_Witness ==
    /\ Returned /\ call = "serve" /\ route = "/docs" /\ Inheriting
    /\ Contains(substituted, <<CLS, Q, "nav", SP>> \o Fragment(<<"docs">>)
                             \o <<SP, "link", Q>>)
    /\ Contains(substituted, <<CLS, Q>> \o Fragment(<<"index">>) \o <<Q>>)
    /\ Contains(body, <<CLS, Q, "nav", SP, ACTIVE, SP, "link", Q, ">", "<a", SP,
                        CLS, Q, Q, ">">>)

\* the positions of d where a placeholder starts whose key is no key of ctx
Unresolved(d, ctx) ==
    {i \in 1..Len(d) :
        /\ i + 4 <= Len(d)
        /\ SubSeq(d, i, i + 4) = Placeholder(d[i + 2])
        /\ ~HasKey(ctx, d[i + 2])}

\* d with the placeholder at position i replaced by one plain lexeme, and
\* back
MARK == "@"

Mark(d, i) == SubSeq(d, 1, i - 1) \o <<MARK>> \o SubSeq(d, i + 5, Len(d))

RECURSIVE Unmark(_, _)
Unmark(d, p) ==
    IF d = <<>> THEN <<>>
    ELSE (IF Head(d) = MARK THEN p ELSE <<Head(d)>>) \o Unmark(Tail(d), p)

\* position m of d lies in the target of a conditional class fragment of a
\* class attribute value
InTarget(d, m) ==
    \E i \in 1..Len(d) :
        /\ OccursAt(d, <<CLS, Q>>, i)
        /\ \E a \in (i + 2)..(m - 3) :
            /\ OccursAt(d, <<IFH, SP, Q>>, a)
            /\ NoQuote(d, i + 2, a - 1)
            /\ \E b \in (m + 1)..Len(d) :
                /\ OccursAt(d, <<Q, SP, FIT>>, b)
                /\ NoQuote(d, a + 3, b - 1)
                /\ \E e \in (b + 3)..Len(d) : d[e] = Q /\ NoQuote(d, b + 3, e - 1)

\* C10 as stated: a placeholder whose key is not in the context is in the
\* output, verbatim and at the same relative position: the rendering treats
\* it as it treats one plain lexeme standing in its place.
C10_UnresolvedKept ==
    Returned =>
        \A i \in Unresolved(composed, context) :
            LET p   == SubSeq(composed, i, i + 4)
                out == SubClass(SubstituteAll(Mark(composed, i), context),
                                ActivePage)
            IN  Count(out, MARK) = 1 /\ body = Unmark(out, p)

\* C10 as amended: substitution keeps the placeholder in place, and so does
\* the class step unless the placeholder then stands in the target of a
\* conditional class fragment of a class attribute value.
C10_UnresolvedKeptOutsideTargets ==
    Returned =>
        \A i \in Unresolved(composed, context) :
            LET p      == SubSeq(composed, i, i + 4)
                marked == SubstituteAll(Mark(composed, i), context)
                out    == SubClass(marked, ActivePage)
            IN  /\ Count(marked, MARK) = 1
                /\ substituted = Unmark(marked, p)
                /\ ~InTarget(marked, IndexOf(marked, MARK, 1))
                       => Count(out, MARK) = 1 /\ body = Unmark(out, p)

\* a placeholder of an absent key between two placeholders of present keys
C10_Witness ==
    /\ Returned
    /\ composed = Placeholder("k") \o Placeholder("z") \o Placeholder("j")
    /\ context = << <<"j", <<"X">>>>, <<"k", <<"X">>>> >>
    /\ body = <<"X">> \o Placeholder("z") \o <<"X">>

\* what holds of substitution when no value of the context holds braces
NoBraces(ctx) == \A i \in 1..Len(ctx) : Count(ctx[i][2], LB) = 0

SinglePassWithoutBraces ==
    (Returned /\ NoBraces(context)) =>
        /\ substituted = SinglePass(composed, context)
        /\ \A c \in Orders(context) : SubstituteAll(composed, c) = substituted

\* the turns of Substitute add up to SubstituteAll
LoopIsSubstituteAll ==
    Returned => substituted = SubstituteAll(composed, context)

\* a document with a second content block after its first one
TwoContentBlocks(d) ==
    LET m == SearchBlock(BC, d)
    IN  m.found /\ SearchBlockFrom(BC, d, m.end + 1).found

SecondBlockText(d) ==
    SearchBlockFrom(BC, d, SearchBlock(BC, d).end + 1).group

\* content and title steps have run for a child with two content blocks and
\* a well-formed base with one content block
TwoBlocksComposed ==
    /\ pc = "variables" /\ idx = 1 /\ Inheriting /\ base_exists
    /\ TwoContentBlocks(content)
    /\ WellFormed(base_content) /\ Count(base_content, BC) = 1

\* C11: when the child holds two content blocks, the text spliced into the
\* base is the trimmed text of the first one, and the text of the second one
\* does not appear in the composed document.
C11_FirstContentBlockOnly ==
    TwoBlocksComposed =>
        LET first  == Strip(BlockText(BC, content))
            second == Strip(SecondBlockText(content))
        IN  /\ spliced = SpliceFirst(BC, base_content, first)
            /\ (/\ ~Contains(base_content, second)
                /\ ~Contains(first, second)
                /\ ~Contains(ClaimedTitle, second)) => ~Contains(composed, second)

\* what holds of the two content blocks when the child has no backslash
FirstContentBlockOnlyWithoutBackslash ==
    (TwoBlocksComposed /\ ~HasBackslash(content)) =>
        LET first  == Strip(BlockText(BC, content))
            second == Strip(SecondBlockText(content))
        IN  /\ spliced = SpliceFirst(BC, base_content, first)
            /\ (/\ ~Contains(base_content, second)
                /\ ~Contains(first, second)
                /\ ~Contains(ClaimedTitle, second)) => ~Contains(composed, second)

\* a child with two content blocks and no backslash has been composed
TwoBlocksComposedWithoutBackslash ==
    /\ TwoBlocksComposed /\ ~HasBackslash(content)
    /\ Strip(BlockText(BC, content)) # Strip(SecondBlockText(content))

\* the two splices of lines 119-134 in the other order: the title block of
\* the base first, the content block of the titled base second
TitleThenContent ==
    LET title_match   == SearchBlock(BT, content)
        title_content ==
            ExpandTemplate(IF title_match.found
                           THEN Strip(title_match.group)
                           ELSE Get(context, "title", DefaultTitle))
        content_match == SearchBlock(BC, content)
        block_content == ExpandTemplate(Strip(content_match.group))
        titled        == SubBlock(BT, base_content, title_content.text)
    IN  IF content_match.found
        THEN SubBlock(BC, titled, block_content.text)
        ELSE titled

\* content and title steps have both run
BothSpliced == pc = "variables" /\ idx = 1 /\ Inheriting /\ base_exists

\* C12: for every child and base, splicing the content block first and the
\* title block second gives the same composed document as splicing the title
\* block first and the content block second; the title splice never rewrites
\* text inserted by the content splice.
C12_SplicesCommute ==
    BothSpliced => composed = TitleThenContent

\* what holds of the two orders when the markers of child and base alternate
SplicesCommuteWhenWellFormed ==
    (BothSpliced /\ WellFormed(content) /\ WellFormed(base_content))
        => composed = TitleThenContent

====
